---- MODULE Spec2Model ----
(***************************************************************************)
(* Model of create_token.py: the Lambda handler that obtains an EDL bearer *)
(* token and stores it in SSM Parameter Store.                             *)
(*                                                                         *)
(* One invocation of token_handler is a run of the state machine.  pc is   *)
(* the handler's position; the external services (SSM, KMS, SNS, the EDL   *)
(* HTTP API) answer nondeterministically and every call made to them is    *)
(* appended to a log (reqs, ssmGets, kmsCalls, ssmPuts, snsLists,          *)
(* published).                                                             *)
(*                                                                         *)
(* Strings the code only concatenates (URLs, tokens) are TLA+ strings.     *)
(* Strings the code inspects with endswith / `in` (the prefix, the topic   *)
(* ARNs) are tuples of one-character strings.                              *)
(***************************************************************************)
EXTENDS Integers, Sequences, FiniteSets, TLC

VARIABLES pc, status, fault, prefix, token_url, delete_token_url,
          username, password, token, resps, listing, listingKind, idx,
          reqs, ssm, ssm0, ssmGets, kmsCalls, ssmPuts, error, notified,
          snsLists, topic_arn, published

vars == <<pc, status, fault, prefix, token_url, delete_token_url,
          username, password, token, resps, listing, listingKind, idx,
          reqs, ssm, ssm0, ssmGets, kmsCalls, ssmPuts, error, notified,
          snsLists, topic_arn, published>>

(* ------------------------------ bounds --------------------------------- *)

\* Longest token listing the identity provider returns.
MaxList == 2

\* Longest topic list SNS returns.
MaxTopics == 2

(* --------------------------- value domains ----------------------------- *)

\* A key that is not in a JSON object / a Python name not yet assigned.
NoField == "<absent>"

\* Python's False, as returned by generate_token and handle_token_error.
PyFalse == "<False>"

\* A parameter that does not exist in the Parameter Store.
Absent == "<no parameter>"

\* create_token.py:22-23
TOPIC_STRING == <<"b", "a", "t", "c", "h", "-", "j", "o", "b", "-", "f", "a", "i", "l", "u", "r", "e">>

Prefixes ==
    { <<"t", "e", "s", "t", "-", "s", "i", "t">>,      \* test-sit
      <<"f", "o", "o", "-", "u", "a", "t">>,           \* foo-uat
      <<"f", "o", "o", "-", "o", "p", "s">>,           \* foo-ops
      <<"f", "o", "o">>,                               \* foo
      <<"a", "-", "s", "i", "t", "-", "b">>,           \* a-sit-b
      <<"s", "i", "t">>,                               \* sit
      <<"f", "o", "o", "-", "s", "i", "t">>,           \* foo-sit
      <<"-", "u", "a", "t">> }                         \* -uat

Credentials == { [u |-> "u", p |-> "p"], [u |-> "u2", p |-> "p2"] }

ErrorCodes == { "max_token_limit", "invalid_credentials" }

AccessTokens == { "", "abc123" }

\* The parsed body of a response of the token endpoint: a JSON object that
\* may or may not have the keys "error" and "access_token".
Responses == [ err : {NoField} \cup ErrorCodes, tok : {NoField} \cup AccessTokens ]

\* The objects of the token listing: each has an access_token or none.
ListedObjects == { NoField, "old1", "old2" }

Listings == UNION { [1..n -> ListedObjects] : n \in 0..MaxList }

TopicArns ==
    { <<"s", "n", "s", ":", "x", "-", "b", "a", "t", "c", "h", "-", "j", "o", "b", "-", "f", "a", "i", "l", "u", "r", "e", "-", "y">>,
      <<"s", "n", "s", ":", "b", "a", "t", "c", "h", "-", "j", "o", "b">> }

TopicLists == UNION { [1..n -> TopicArns] : n \in 0..MaxTopics }

(* ------------------------------ helpers -------------------------------- *)

\* str.endswith
EndsWith(s, suffix) ==
    /\ Len(suffix) <= Len(s)
    /\ SubSeq(s, Len(s) - Len(suffix) + 1, Len(s)) = suffix

\* `sub in s` for strings
Contains(s, sub) ==
    \E i \in 0..(Len(s) - Len(sub)) : SubSeq(s, i + 1, i + Len(sub)) = sub

\* IsNonProd with `in` where the code has endswith.
IsNonProd_contains(p) ==
    \/ Contains(p, <<"-", "s", "i", "t">>)
    \/ Contains(p, <<"-", "u", "a", "t">>)

\* The condition of the if at the top of token_handler.
IsNonProd(p) ==
    \/ EndsWith(p, <<"-", "s", "i", "t">>)
    \/ EndsWith(p, <<"-", "u", "a", "t">>)

TokenUrl(p) ==
    IF IsNonProd(p) THEN "https://uat.urs.earthdata.nasa.gov/api/users/token"
                    ELSE "https://urs.earthdata.nasa.gov/api/users/token"

DeleteTokenUrl(p) ==
    IF IsNonProd(p) THEN "https://uat.urs.earthdata.nasa.gov/api/users/revoke_token?token"
                    ELSE "https://urs.earthdata.nasa.gov/api/users/revoke_token?token"

\* requests.post / requests.get with HEADERS and HTTPBasicAuth(username, password)
Request(m, url) == [ method |-> m, url |-> url, user |-> username, pass |-> password ]

\* "error" in token_data.keys()
HasError(r) == r.err # NoField

\* IsMaxTokenLimit taking every error for the token limit.
IsMaxTokenLimit_any(r) == r.err # NoField

\* token_data["error"] == "max_token_limit"
IsMaxTokenLimit(r) == r.err = "max_token_limit"

\* AccessTokenOf reading the wrong key.
AccessTokenOf_wrongkey(r) == r.err

\* token_data["access_token"]
AccessTokenOf(r) == r.tok

\* HasAccessToken without the test: every listed object is revoked.
HasAccessToken_always(obj) == TRUE

\* "access_token" in token.keys()
HasAccessToken(obj) == obj # NoField

\* Falsy with the test inverted (`if token` for `if not token`).
Falsy_inverted(t) == ~(t = PyFalse \/ t = "")

\* Python's `not token`
Falsy(t) == t = PyFalse \/ t = ""

\* f"{prefix}-edl-token"
ParamName(p) == p \o <<"-", "e", "d", "l", "-", "t", "o", "k", "e", "n">>

\* What put_parameter can do with a value.  A str is sent to the service,
\* which acknowledges or answers with a ClientError.  Value=False is not a
\* str: botocore's parameter validation raises ParamValidationError (not a
\* ClientError) before anything is sent; a client without validation sends
\* it and gets an acknowledgement or a ClientError.
PutOutcomes(t) ==
    IF t = PyFalse THEN { "ParamValidationError", "ok", "ClientError" }
                   ELSE { "ok", "ClientError" }

\* The loop over topics["Topics"]: topic_arn is the last matching ARN and
\* stays unassigned when none matches.
RECURSIVE TopicArnAfter(_, _)
TopicArnAfter(ts, acc) ==
    IF ts = <<>> THEN acc
    ELSE TopicArnAfter(Tail(ts),
                       IF Contains(Head(ts), TOPIC_STRING)
                       THEN [bound |-> TRUE, arn |-> Head(ts)]
                       ELSE acc)

Unbound == [bound |-> FALSE, arn |-> <<>>]

(* ------------------------------- state --------------------------------- *)

Init ==
    /\ pc = "start"
    /\ status = "running"
    /\ fault = "none"
    /\ prefix \in Prefixes
    /\ token_url = NoField
    /\ delete_token_url = NoField
    /\ username = NoField
    /\ password = NoField
    /\ token = NoField
    /\ resps = <<>>
    /\ listing = <<>>
    /\ listingKind = "none"
    /\ idx = 0
    /\ reqs = <<>>
    /\ ssm \in [ {ParamName(prefix)} -> {Absent, "old-token"} ]
    /\ ssm0 = ssm
    /\ ssmGets = <<>>
    /\ kmsCalls = 0
    /\ ssmPuts = <<>>
    /\ error = NoField
    /\ notified = <<>>
    /\ snsLists = 0
    /\ topic_arn = Unbound
    /\ published = <<>>

\* An exception nothing catches ends the invocation.
Crash(name) ==
    /\ status' = "fault"
    /\ fault' = name
    /\ pc' = "done"

\* token_handler, the if/else that picks the URLs.
SelectEnvironment ==
    /\ pc = "start"
    /\ token_url' = TokenUrl(prefix)
    /\ delete_token_url' = DeleteTokenUrl(prefix)
    /\ pc' = "creds"
    /\ UNCHANGED <<status, fault, prefix, username, password, token, resps,
                   listing, listingKind, idx, reqs, ssm, ssm0, ssmGets,
                   kmsCalls, ssmPuts, error, notified, snsLists, topic_arn,
                   published>>

\* get_edl_creds: two get_parameter calls; a ClientError of either is
\* re-raised to token_handler.
GetEdlCreds ==
    /\ pc = "creds"
    /\ \E c \in Credentials, failing \in {"none", "username", "password"} :
        /\ ssmGets' = IF failing = "username"
                      THEN <<"generate-edl-username">>
                      ELSE <<"generate-edl-username", "generate-edl-password">>
        /\ IF failing = "none"
           THEN /\ username' = c.u
                /\ password' = c.p
                /\ pc' = "post"
                /\ UNCHANGED error
           ELSE /\ error' = "ClientError: get_parameter"
                /\ pc' = "except"
                /\ UNCHANGED <<username, password>>
    /\ UNCHANGED <<status, fault, prefix, token_url, delete_token_url, token,
                   resps, listing, listingKind, idx, reqs, ssm, ssm0,
                   kmsCalls, ssmPuts, notified, snsLists, topic_arn,
                   published>>

\* generate_token: the first POST and the branches on its response.
GenerateToken ==
    /\ pc = "post"
    /\ \E r \in Responses :
        /\ reqs' = Append(reqs, Request("POST", token_url))
        /\ resps' = Append(resps, r)
        /\ IF HasError(r)
           THEN IF IsMaxTokenLimit(r)
                THEN /\ pc' = "list"
                     /\ UNCHANGED <<token, status, fault>>
                ELSE /\ token' = PyFalse
                     /\ pc' = "store"
                     /\ UNCHANGED <<status, fault>>
           ELSE IF AccessTokenOf(r) = NoField
                THEN /\ Crash("KeyError")
                     /\ UNCHANGED token
                ELSE /\ token' = AccessTokenOf(r)
                     /\ pc' = "store"
                     /\ UNCHANGED <<status, fault>>
    /\ UNCHANGED <<prefix, token_url, delete_token_url, username, password,
                   listing, listingKind, idx, ssm, ssm0, ssmGets, kmsCalls,
                   ssmPuts, error, notified, snsLists, topic_arn, published>>

\* handle_token_error: the GET of the token listing.  The body is a list of
\* token objects, or a JSON object (an error body).
ListTokens ==
    /\ pc = "list"
    /\ reqs' = Append(reqs, Request("GET", token_url \o "s"))
    /\ \/ \E l \in Listings : listing' = l /\ listingKind' = "list"
       \/ listing' = <<>> /\ listingKind' = "object"
    /\ idx' = 1
    /\ pc' = "revoke"
    /\ UNCHANGED <<status, fault, prefix, token_url, delete_token_url,
                   username, password, token, resps, ssm, ssm0, ssmGets,
                   kmsCalls, ssmPuts, error, notified, snsLists, topic_arn,
                   published>>

\* handle_token_error: one iteration of `for token in token_data`.
RevokeNext ==
    /\ pc = "revoke"
    /\ listingKind = "list"
    /\ idx <= Len(listing)
    /\ reqs' = IF HasAccessToken(listing[idx])
               THEN Append(reqs, Request("POST", delete_token_url \o "=" \o listing[idx]))
               ELSE reqs
    /\ idx' = idx + 1
    /\ UNCHANGED <<pc, status, fault, prefix, token_url, delete_token_url,
                   username, password, token, resps, listing, listingKind,
                   ssm, ssm0, ssmGets, kmsCalls, ssmPuts, error, notified,
                   snsLists, topic_arn, published>>

\* handle_token_error: iterating a JSON object yields its keys, which are
\* str and have no keys().
RevokeOnObject ==
    /\ pc = "revoke"
    /\ listingKind = "object"
    /\ Crash("AttributeError")
    /\ UNCHANGED <<prefix, token_url, delete_token_url, username, password,
                   token, resps, listing, listingKind, idx, reqs, ssm, ssm0,
                   ssmGets, kmsCalls, ssmPuts, error, notified, snsLists,
                   topic_arn, published>>

\* RetryPost starting over when the retry meets the token limit again.
RetryPost_again ==
    /\ pc = "revoke"
    /\ listingKind = "list"
    /\ idx > Len(listing)
    /\ \E r \in Responses :
        /\ reqs' = Append(reqs, Request("POST", token_url))
        /\ resps' = Append(resps, r)
        /\ IF HasError(r)
           THEN IF r.err = "max_token_limit"
                THEN /\ pc' = "list"
                     /\ UNCHANGED <<token, status, fault>>
                ELSE /\ token' = PyFalse
                     /\ pc' = "store"
                     /\ UNCHANGED <<status, fault>>
           ELSE IF AccessTokenOf(r) = NoField
                THEN /\ Crash("KeyError")
                     /\ UNCHANGED token
                ELSE /\ token' = AccessTokenOf(r)
                     /\ pc' = "store"
                     /\ UNCHANGED <<status, fault>>
    /\ UNCHANGED <<prefix, token_url, delete_token_url, username, password,
                   listing, listingKind, idx, ssm, ssm0, ssmGets, kmsCalls,
                   ssmPuts, error, notified, snsLists, topic_arn, published>>

\* handle_token_error: the second POST, after the loop; its result is what
\* generate_token returns.
RetryPost ==
    /\ pc = "revoke"
    /\ listingKind = "list"
    /\ idx > Len(listing)
    /\ \E r \in Responses :
        /\ reqs' = Append(reqs, Request("POST", token_url))
        /\ resps' = Append(resps, r)
        /\ IF HasError(r)
           THEN /\ token' = PyFalse
                /\ pc' = "store"
                /\ UNCHANGED <<status, fault>>
           ELSE IF AccessTokenOf(r) = NoField
                THEN /\ Crash("KeyError")
                     /\ UNCHANGED token
                ELSE /\ token' = AccessTokenOf(r)
                     /\ pc' = "store"
                     /\ UNCHANGED <<status, fault>>
    /\ UNCHANGED <<prefix, token_url, delete_token_url, username, password,
                   listing, listingKind, idx, ssm, ssm0, ssmGets, kmsCalls,
                   ssmPuts, error, notified, snsLists, topic_arn, published>>

\* store_token, called by token_handler with whatever generate_token
\* returned: describe_key, then put_parameter.
StoreToken ==
    /\ pc = "store"
    /\ kmsCalls' = kmsCalls + 1
    /\ \/ /\ error' = "ClientError: describe_key"
          /\ pc' = "except"
          /\ UNCHANGED <<ssm, ssmPuts, status, fault>>
       \/ \E o \in PutOutcomes(token) :
            /\ ssmPuts' = Append(ssmPuts, [ Name |-> ParamName(prefix),
                                            Value |-> token,
                                            Type |-> "SecureString",
                                            Overwrite |-> TRUE,
                                            outcome |-> o ])
            /\ ssm' = IF o = "ok"
                      THEN (ParamName(prefix) :> token) @@ ssm
                      ELSE ssm
            /\ CASE o = "ok" -> pc' = "check" /\ UNCHANGED <<error, status, fault>>
                 [] o = "ClientError" -> /\ error' = "ClientError: put_parameter"
                                         /\ pc' = "except"
                                         /\ UNCHANGED <<status, fault>>
                 [] OTHER -> Crash(o) /\ UNCHANGED error
    /\ UNCHANGED <<prefix, token_url, delete_token_url, username, password,
                   token, resps, listing, listingKind, idx, reqs, ssm0,
                   ssmGets, notified, snsLists, topic_arn, published>>

\* token_handler: `if not token` after store_token returned.
CheckToken ==
    /\ pc = "check"
    /\ IF Falsy(token)
       THEN /\ notified' = Append(notified,
                   [ type |-> "ERROR",
                     description |-> "Issue generating and storing bearer token." ])
            /\ pc' = "topics"
            /\ UNCHANGED status
       ELSE /\ status' = "returned"
            /\ pc' = "done"
            /\ UNCHANGED notified
    /\ UNCHANGED <<fault, prefix, token_url, delete_token_url, username,
                   password, token, resps, listing, listingKind, idx, reqs,
                   ssm, ssm0, ssmGets, kmsCalls, ssmPuts, error, snsLists,
                   topic_arn, published>>

\* token_handler: except botocore.exceptions.ClientError.
HandleClientError ==
    /\ pc = "except"
    /\ notified' = Append(notified, [ type |-> "ERROR", description |-> error ])
    /\ pc' = "topics"
    /\ UNCHANGED <<status, fault, prefix, token_url, delete_token_url,
                   username, password, token, resps, listing, listingKind,
                   idx, reqs, ssm, ssm0, ssmGets, kmsCalls, ssmPuts, error,
                   snsLists, topic_arn, published>>

\* publish_event: list_topics and the loop that looks for the topic.
ListTopics ==
    /\ pc = "topics"
    /\ snsLists' = snsLists + 1
    /\ \/ /\ status' = "exit1"
          /\ pc' = "done"
          /\ UNCHANGED topic_arn
       \/ \E ts \in TopicLists :
            /\ topic_arn' = TopicArnAfter(ts, Unbound)
            /\ pc' = "publish"
            /\ UNCHANGED status
    /\ UNCHANGED <<fault, prefix, token_url, delete_token_url, username,
                   password, token, resps, listing, listingKind, idx, reqs,
                   ssm, ssm0, ssmGets, kmsCalls, ssmPuts, error, notified,
                   published>>

\* publish_event: sns.publish; then sys.exit(1), in publish_event when the
\* publish raised a ClientError and in token_handler when it returned.
Publish ==
    /\ pc = "publish"
    /\ IF ~topic_arn.bound
       THEN /\ Crash("UnboundLocalError")
            /\ UNCHANGED published
       ELSE /\ \E o \in {"ok", "ClientError"} :
                 published' = Append(published,
                     [ TopicArn |-> topic_arn.arn,
                       Subject |-> "Generate Token Creator Lambda Failure",
                       type |-> notified[Len(notified)].type,
                       description |-> notified[Len(notified)].description,
                       outcome |-> o ])
            /\ status' = "exit1"
            /\ pc' = "done"
            /\ UNCHANGED fault
    /\ UNCHANGED <<prefix, token_url, delete_token_url, username, password,
                   token, resps, listing, listingKind, idx, reqs, ssm, ssm0,
                   ssmGets, kmsCalls, ssmPuts, error, notified, snsLists,
                   topic_arn>>

Next ==
    \/ SelectEnvironment
    \/ GetEdlCreds
    \/ GenerateToken
    \/ ListTokens
    \/ RevokeNext
    \/ RevokeOnObject
    \/ RetryPost
    \/ StoreToken
    \/ CheckToken
    \/ HandleClientError
    \/ ListTopics
    \/ Publish

Spec == Init /\ [][Next]_vars

TypeOK ==
    /\ pc \in {"start", "creds", "post", "list", "revoke", "store", "check",
               "except", "topics", "publish", "done"}
    /\ status \in {"running", "returned", "exit1", "fault"}
    /\ (pc = "done") = (status # "running")

(* ------------------------------ properties ----------------------------- *)

Terminated == status # "running"

\* The requests of the log that satisfy a test.
CountReqs(Test(_)) == Cardinality({ i \in 1..Len(reqs) : Test(reqs[i]) })

IsTokenPost(q) == q.method = "POST" /\ q.url = token_url

IsListGet(q) == q.method = "GET"

\* The revoke requests the listed objects l call for, in their order.
RECURSIVE ExpectedRevokes(_)
ExpectedRevokes(l) ==
    IF l = <<>> THEN <<>>
    ELSE (IF Head(l) = NoField
          THEN <<>>
          ELSE << [ method |-> "POST",
                    url |-> delete_token_url \o "=" \o Head(l),
                    user |-> username, pass |-> password ] >>)
         \o ExpectedRevokes(Tail(l))

ExpectedPost == [ method |-> "POST", url |-> token_url,
                  user |-> username, pass |-> password ]

ExpectedGet == [ method |-> "GET", url |-> token_url \o "s",
                 user |-> username, pass |-> password ]

\* C1: whenever generate_token returned False, the invocation ends with
\* publish_event called and exit status 1, never with status 0 or a fault.
C1_FailureNotifiedExit1 ==
    (Terminated /\ token = PyFalse) => (notified # <<>> /\ status = "exit1")

\* C2: after a first response error=max_token_limit and a listing that is a
\* list, the requests are the first POST, the listing GET, one revoke for
\* each listed object that has an access_token (in order, none for the
\* others) and, once the loop is over, exactly one retried POST.
C2_RevokeEachThenRetryOnce ==
    (Len(resps) >= 1 /\ resps[1].err = "max_token_limit" /\ listingKind = "list")
    => /\ Len(resps) = 1 =>
            reqs = <<ExpectedPost, ExpectedGet>>
                   \o ExpectedRevokes(SubSeq(listing, 1, idx - 1))
       /\ Len(resps) = 2 =>
            /\ reqs = <<ExpectedPost, ExpectedGet>>
                      \o ExpectedRevokes(listing) \o <<ExpectedPost>>
            /\ Len(reqs) = 3 + Cardinality({ i \in 1..Len(listing) :
                                             listing[i] # NoField })
       /\ Len(resps) <= 2

C2_Witness ==
    /\ Len(resps) = 2
    /\ resps[1].err = "max_token_limit"
    /\ listingKind = "list"
    /\ listing = <<"old1", NoField>>
    /\ Len(reqs) = 4

\* C3: the token endpoint is POSTed at most twice; when the retried POST
\* returns an error, generate_token returns False and the retried POST is
\* the last request of the run.
C3_AtMostOneRetry ==
    /\ CountReqs(IsTokenPost) <= 2
    /\ CountReqs(IsListGet) <= 1
    /\ (Len(resps) = 2 /\ resps[2].err # NoField)
       => /\ token = PyFalse
          /\ reqs[Len(reqs)] = ExpectedPost
          /\ CountReqs(IsTokenPost) = 2

C3_Witness ==
    /\ Len(resps) = 2
    /\ resps[2].err = "max_token_limit"
    /\ Terminated
    /\ listing = <<"old1", "old2">>

\* C4: after a first response with an error other than max_token_limit,
\* generate_token returns False and the first POST is the only request.
C4_OtherErrorFailsAtOnce ==
    (Len(resps) >= 1 /\ resps[1].err # NoField /\ resps[1].err # "max_token_limit")
    => /\ token = PyFalse
       /\ reqs = <<ExpectedPost>>
       /\ Len(resps) = 1
       /\ listingKind = "none"

C4_Witness ==
    /\ Len(resps) = 1
    /\ resps[1].err = "invalid_credentials"
    /\ Terminated

\* C5: after a first response with an access_token and no error,
\* generate_token returns that access_token and the first POST, sent with
\* the credentials read from the store, is the only request.
C5_FirstTokenReturned ==
    (Len(resps) >= 1 /\ resps[1].err = NoField /\ resps[1].tok # NoField)
    => /\ token = resps[1].tok
       /\ reqs = <<ExpectedPost>>
       /\ username # NoField /\ password # NoField
       /\ Len(resps) = 1
       /\ listingKind = "none"

C5_Witness ==
    /\ Len(resps) = 1
    /\ resps[1] = [err |-> NoField, tok |-> "abc123"]
    /\ username = "u2"
    /\ pc = "store"

\* C6: once a non-empty token T is issued and its put_parameter is
\* acknowledged, that put is the only one, to `{prefix}-edl-token` with
\* value T, SecureString and Overwrite, the stored value is T, nothing is
\* published and the invocation ends by returning (exit status 0).
C6_SuccessStoresToken ==
    (/\ token \notin {NoField, PyFalse, ""}
     /\ ssmPuts # <<>>
     /\ ssmPuts[Len(ssmPuts)].outcome = "ok")
    => /\ ssmPuts = << [ Name |-> prefix \o <<"-", "e", "d", "l", "-", "t", "o", "k", "e", "n">>,
                         Value |-> token,
                         Type |-> "SecureString",
                         Overwrite |-> TRUE,
                         outcome |-> "ok" ] >>
       /\ ssm[prefix \o <<"-", "e", "d", "l", "-", "t", "o", "k", "e", "n">>] = token
       /\ ssmGets = <<"generate-edl-username", "generate-edl-password">>
       /\ notified = <<>>
       /\ snsLists = 0
       /\ published = <<>>
       /\ pc \in {"check", "done"}
       /\ pc = "done" => status = "returned"

C6_Witness ==
    /\ status = "returned"
    /\ prefix = <<"t", "e", "s", "t", "-", "s", "i", "t">>
    /\ token = "abc123"
    /\ ssm0[<<"t", "e", "s", "t", "-", "s", "i", "t", "-", "e", "d", "l", "-", "t", "o", "k", "e", "n">>] = "old-token"
    /\ ssm[<<"t", "e", "s", "t", "-", "s", "i", "t", "-", "e", "d", "l", "-", "t", "o", "k", "e", "n">>] = "abc123"

\* C7: whenever publish_event was called, the invocation ends with exit
\* status 1, whatever list_topics and publish do.
C7_NotifierAlwaysExit1 ==
    (Terminated /\ notified # <<>>) => status = "exit1"

\* C8: when get_edl_creds or store_token raised a ClientError, publish_event
\* is called and the invocation ends with exit status 1; after a credential
\* failure there is no request to the identity provider and no put, and a
\* failed put is not repeated.
C8_StoreErrorsNotifiedExit1 ==
    (error # NoField)
    => /\ Terminated => (notified # <<>> /\ status = "exit1")
       /\ error = "ClientError: get_parameter" => (reqs = <<>> /\ ssmPuts = <<>>)
       /\ Len(ssmPuts) <= 1
       /\ kmsCalls <= 1

\* C9: every request of the run goes to the non-production host when the
\* prefix ends with -sit or -uat and to the production host otherwise.
C9_RoutingBySuffix ==
    LET nonprod == \/ EndsWith(prefix, <<"-", "s", "i", "t">>)
                   \/ EndsWith(prefix, <<"-", "u", "a", "t">>)
        base == IF nonprod THEN "https://uat.urs.earthdata.nasa.gov"
                           ELSE "https://urs.earthdata.nasa.gov"
    IN  \A i \in 1..Len(reqs) :
          \/ reqs[i].method = "POST" /\ reqs[i].url = base \o "/api/users/token"
          \/ reqs[i].method = "GET" /\ reqs[i].url = base \o "/api/users/tokens"
          \/ /\ reqs[i].method = "POST"
             /\ \E t \in ListedObjects \ {NoField} :
                  reqs[i].url = base \o "/api/users/revoke_token?token=" \o t

C9_Witness ==
    /\ prefix = <<"a", "-", "s", "i", "t", "-", "b">>
    /\ Len(resps) = 2
    /\ \E i \in 1..Len(reqs) :
         reqs[i].url = "https://urs.earthdata.nasa.gov/api/users/revoke_token?token=old2"
    /\ reqs[2].url = "https://urs.earthdata.nasa.gov/api/users/tokens"
    /\ reqs[Len(reqs)].url = "https://urs.earthdata.nasa.gov/api/users/token"

\* C10: when generate_token returned False, put_parameter is never called
\* and the stored parameters are what they were before the invocation.
C10_NoPutWithoutToken ==
    token = PyFalse => (ssmPuts = <<>> /\ ssm = ssm0)

====
